---- MODULE Spec2Model ----
(***************************************************************************)
(* UpdatePipelineAction (packages/@aws-cdk/pipelines/lib/actions/          *)
(* update-pipeline-action.ts): the self-mutation action of a CDK pipeline. *)
(* The constructor declares one CodeBuild project with a build             *)
(* specification and three role-policy statements and wraps it in a        *)
(* CodeBuildAction; bind, onStateChange and actionProperties forward to    *)
(* that wrapped action.                                                    *)
(*                                                                         *)
(* Strings are TLA+ strings and template literals are concatenations.      *)
(* An optional string property is a record [present, value]; an opaque     *)
(* handle (artifact, stage, rule target ...) is a string, "undefined"      *)
(* standing for an omitted optional argument.                              *)
(***************************************************************************)
EXTENDS Integers, Sequences, FiniteSets, TLC

VARIABLES
  pc,        \* "calling": `new UpdatePipelineAction(scope, id, props)` is entered;
             \* "constructed": it has returned; "failed": it has thrown
  scope,     \* the constructor's scope argument
  props,     \* the constructor's props argument
  projects,  \* the PipelineProject resources declared under `this`, by creation order
  actions,   \* the CodeBuildAction objects created, by creation order
  action,    \* this.action: an index into actions, or undefined
  trace      \* the calls made on the configurator: method, arguments, returned value

vars == <<pc, scope, props, projects, actions, action, trace>>

----------------------------------------------------------------------------
(* Bounds and input sets *)

MaxCalls == 3

Some(s) == [present |-> TRUE, value |-> s]

None == [present |-> FALSE, value |-> ""]

Artifacts == {"CloudAsm", "OtherArtifact"}

StackNames == {"Prod", "Staging", "bad name!", ""}

CliVersions == {None, Some(""), Some("1.2.3"), Some("2")}

ProjectNames == {None, Some("MyMutate")}

Scopes == {[path |-> "App/Pipeline", asmDir |-> "."],
           [path |-> "App/Stage/Pipeline", asmDir |-> "assembly-Stage"]}

UpdatePipelineActionProps ==
  [cloudAssemblyInput : Artifacts,
   pipelineStackName  : StackNames,
   cdkCliVersion      : CliVersions,
   projectName        : ProjectNames]

BindArgs == {<<"pipeline", "UpdatePipeline", "options1">>,
             <<"pipeline", "UpdatePipeline", "options2">>}

StateChangeArgs == {<<"OnChange", "undefined", "undefined">>,
                    <<"OnChange", "topic", "ruleProps">>}

----------------------------------------------------------------------------
(* The constructor's pieces *)

undefined == 0

\* JavaScript truthiness of an optional string: undefined and '' are falsy.
Truthy(opt) == opt.present /\ opt.value # ""

installSuffix_presentOnly(p) ==
  IF p.cdkCliVersion.present THEN "@" \o p.cdkCliVersion.value ELSE ""

installSuffix(p) ==
  IF Truthy(p.cdkCliVersion) THEN "@" \o p.cdkCliVersion.value ELSE ""

InstallCommand_noSuffix(p) == "npm install -g aws-cdk"

InstallCommand(p) == "npm install -g aws-cdk" \o installSuffix(p)

\* The path of the cloud assembly relative to the build's working directory.
embeddedAsmPath(s) == s.asmDir

BuildCommand_noVerbose(s, p) ==
  "cdk -a " \o embeddedAsmPath(s) \o " deploy " \o p.pipelineStackName
    \o " --require-approval=never"

BuildCommand(s, p) ==
  "cdk -a " \o embeddedAsmPath(s) \o " deploy " \o p.pipelineStackName
    \o " --require-approval=never --verbose"

\* A `commands` entry is either one string or a list of strings.
Scalar(c) == [node |-> "scalar", items |-> <<c>>]

List(cs) == [node |-> "list", items |-> cs]

BuildSpecObject_preBuild(s, p) ==
  [version |-> "0.2",
   phases  |-> [install   |-> [commands |-> Scalar(InstallCommand(p))],
                pre_build |-> [commands |-> List(<<"npm ci">>)],
                build     |-> [commands |-> List(<<BuildCommand(s, p)>>)]]]

BuildSpecObject(s, p) ==
  [version |-> "0.2",
   phases  |-> [install |-> [commands |-> Scalar(InstallCommand(p))],
                build   |-> [commands |-> List(<<BuildCommand(s, p)>>)]]]

PolicyStatement(acts, res) == [actions |-> acts, resources |-> res]

RolePolicyStatements_swapped ==
  << PolicyStatement(<<"sts:AssumeRole">>,
                     <<"arn:*:iam::*:role/*-deploy-role-*",
                       "arn:*:iam::*:role/*-publishing-role-*">>),
     PolicyStatement(<<"s3:ListBucket">>, <<"*">>),
     PolicyStatement(<<"cloudformation:DescribeStacks">>, <<"*">>) >>

RolePolicyStatements ==
  << PolicyStatement(<<"sts:AssumeRole">>,
                     <<"arn:*:iam::*:role/*-deploy-role-*",
                       "arn:*:iam::*:role/*-publishing-role-*">>),
     PolicyStatement(<<"cloudformation:DescribeStacks">>, <<"*">>),
     PolicyStatement(<<"s3:ListBucket">>, <<"*">>) >>

\* new codebuild.PipelineProject(this, 'SelfMutation', {projectName, buildSpec})
PipelineProject(id, name, spec) ==
  [id |-> id, projectName |-> name, buildSpec |-> spec, rolePolicy |-> <<>>]

addToRolePolicy(project, statement) ==
  [project EXCEPT !.rolePolicy = Append(@, statement)]

RECURSIVE addAllToRolePolicy(_, _)
addAllToRolePolicy(project, statements) ==
  IF statements = <<>> THEN project
  ELSE addAllToRolePolicy(addToRolePolicy(project, Head(statements)), Tail(statements))

CodeBuildAction_fixedInput(name, input, project) ==
  [actionName |-> name, input |-> "undefined", project |-> project, calls |-> <<>>]

\* new cpactions.CodeBuildAction({actionName, input, project})
CodeBuildAction(name, input, project) ==
  [actionName |-> name, input |-> input, project |-> project, calls |-> <<>>]

----------------------------------------------------------------------------
(* The wrapped action's own methods *)

ResultKind(method) ==
  CASE method = "bind"             -> "ActionConfig"
    [] method = "onStateChange"    -> "Rule"
    [] method = "actionProperties" -> "ActionProperties"

InnerReturn(a, method, args) ==
  [kind |-> ResultKind(method), actionName |-> a.actionName,
   input |-> a.input, project |-> a.project, args |-> args]

\* What a call on an undefined this.action produces.
TypeError ==
  [kind |-> "TypeError", actionName |-> "", input |-> "", project |-> undefined,
   args |-> <<>>]

----------------------------------------------------------------------------
(* Operations *)

Init ==
  /\ pc = "calling"
  /\ scope \in Scopes
  /\ props \in UpdatePipelineActionProps
  /\ projects = <<>>
  /\ actions = <<>>
  /\ action = undefined
  /\ trace = <<>>

Constructor_lazy ==
  /\ pc = "calling"
  /\ projects' = Append(projects,
        addAllToRolePolicy(
          PipelineProject("SelfMutation", props.projectName, BuildSpecObject(scope, props)),
          RolePolicyStatements))
  /\ pc' = "constructed"
  /\ UNCHANGED <<scope, props, actions, action, trace>>

Constructor_validating ==
  /\ pc = "calling"
  /\ IF props.pipelineStackName \in {"Prod", "Staging"}
       THEN /\ projects' = Append(projects,
                  addAllToRolePolicy(
                    PipelineProject("SelfMutation", props.projectName,
                                    BuildSpecObject(scope, props)),
                    RolePolicyStatements))
            /\ actions' = Append(actions,
                  CodeBuildAction("SelfMutate", props.cloudAssemblyInput, Len(projects) + 1))
            /\ action' = Len(actions) + 1
            /\ pc' = "constructed"
       ELSE /\ pc' = "failed"
            /\ UNCHANGED <<projects, actions, action>>
  /\ UNCHANGED <<scope, props, trace>>

Constructor ==
  /\ pc = "calling"
  /\ projects' = Append(projects,
        addAllToRolePolicy(
          PipelineProject("SelfMutation", props.projectName, BuildSpecObject(scope, props)),
          RolePolicyStatements))
  /\ actions' = Append(actions,
        CodeBuildAction("SelfMutate", props.cloudAssemblyInput, Len(projects) + 1))
  /\ action' = Len(actions) + 1
  /\ pc' = "constructed"
  /\ UNCHANGED <<scope, props, trace>>

\* `return this.action.<method>(<forwarded>)`, the configurator having been
\* called with <received>.
Invoke(method, received, forwarded) ==
  /\ pc = "constructed"
  /\ Len(trace) < MaxCalls
  /\ IF action = undefined
       THEN /\ trace' = Append(trace,
                  [method |-> method, args |-> received, ret |-> TypeError])
            /\ UNCHANGED actions
       ELSE LET r == InnerReturn(actions[action], method, forwarded) IN
            /\ actions' = [actions EXCEPT ![action].calls =
                  Append(@, [method |-> method, args |-> forwarded, ret |-> r])]
            /\ trace' = Append(trace,
                  [method |-> method, args |-> received, ret |-> r])
  /\ UNCHANGED <<pc, scope, props>>

bind_defaultOptions(s, stage, options) ==
  /\ Invoke("bind", <<s, stage, options>>, <<s, stage, "options1">>)
  /\ UNCHANGED <<projects, action>>

bind(s, stage, options) ==
  /\ Invoke("bind", <<s, stage, options>>, <<s, stage, options>>)
  /\ UNCHANGED <<projects, action>>

onStateChange_grants(name, target, options) ==
  /\ Invoke("onStateChange", <<name, target, options>>, <<name, target, options>>)
  /\ projects' = [i \in DOMAIN projects |->
        addToRolePolicy(projects[i], PolicyStatement(<<"events:PutRule">>, <<"*">>))]
  /\ UNCHANGED action

onStateChange(name, target, options) ==
  /\ Invoke("onStateChange", <<name, target, options>>, <<name, target, options>>)
  /\ UNCHANGED <<projects, action>>

actionProperties ==
  /\ Invoke("actionProperties", <<>>, <<>>)
  /\ UNCHANGED <<projects, action>>

Next ==
  \/ Constructor
  \/ \E a \in BindArgs : bind(a[1], a[2], a[3])
  \/ \E a \in StateChangeArgs : onStateChange(a[1], a[2], a[3])
  \/ actionProperties

Spec == Init /\ [][Next]_vars

----------------------------------------------------------------------------
(* What construction emitted, as the properties below read it *)

Constructed == pc = "constructed"

SelfMutationProject == projects[1]

EmittedBuildSpec == SelfMutationProject.buildSpec

InstallCommands == EmittedBuildSpec.phases.install.commands.items

BuildCommands == EmittedBuildSpec.phases.build.commands.items

CalledMethods == {trace[i].method : i \in DOMAIN trace}

----------------------------------------------------------------------------
(* Properties *)

\* C1 (as stated): whenever cdkCliVersion is a string V the install command is
\* exactly 'npm install -g aws-cdk@V', and when it is absent the command is
\* exactly 'npm install -g aws-cdk'.
C1_InstallCommandAnyVersion ==
  Constructed =>
    /\ props.cdkCliVersion.present =>
         InstallCommands = <<"npm install -g aws-cdk@" \o props.cdkCliVersion.value>>
    /\ ~props.cdkCliVersion.present =>
         InstallCommands = <<"npm install -g aws-cdk">>

\* C1 (amended): whenever cdkCliVersion is a non-empty string V the install
\* command is exactly 'npm install -g aws-cdk@V', and when it is absent the
\* command is exactly 'npm install -g aws-cdk'.
C1_InstallCommandNonEmptyVersion ==
  Constructed =>
    /\ (props.cdkCliVersion.present /\ props.cdkCliVersion.value # "") =>
         InstallCommands = <<"npm install -g aws-cdk@" \o props.cdkCliVersion.value>>
    /\ ~props.cdkCliVersion.present =>
         InstallCommands = <<"npm install -g aws-cdk">>

C1_Witness ==
  /\ Constructed
  /\ props.pipelineStackName = "Staging"
  /\ props.cdkCliVersion = Some("1.2.3")
  /\ props.projectName = Some("MyMutate")
  /\ InstallCommands = <<"npm install -g aws-cdk@1.2.3">>
  /\ SelfMutationProject.projectName = Some("MyMutate")

\* C2: the single build command is 'cdk -a <path of the scope's assembly> deploy
\* <pipelineStackName> --require-approval=never --verbose', the stack name
\* unchanged, for every configuration.
C2_DeployCommand ==
  Constructed =>
    BuildCommands =
      << "cdk -a " \o scope.asmDir \o " deploy " \o props.pipelineStackName
           \o " --require-approval=never --verbose" >>

C2_Witness ==
  /\ Constructed
  /\ scope.asmDir = "assembly-Stage"
  /\ props.pipelineStackName = "Staging"
  /\ BuildCommands =
       <<"cdk -a assembly-Stage deploy Staging --require-approval=never --verbose">>

\* C3: construction attaches exactly three statements to the project's role, in
\* the order sts:AssumeRole on the two bootstrap role patterns,
\* cloudformation:DescribeStacks on *, s3:ListBucket on *, whatever the
\* configuration.
C3_ThreePolicyStatements ==
  Constructed =>
    projects[actions[action].project].rolePolicy =
      << [actions   |-> <<"sts:AssumeRole">>,
          resources |-> <<"arn:*:iam::*:role/*-deploy-role-*",
                          "arn:*:iam::*:role/*-publishing-role-*">>],
         [actions   |-> <<"cloudformation:DescribeStacks">>,
          resources |-> <<"*">>],
         [actions   |-> <<"s3:ListBucket">>,
          resources |-> <<"*">>] >>

C3_Witness ==
  /\ Constructed
  /\ props.cdkCliVersion = Some("2")
  /\ props.pipelineStackName = ""
  /\ Len(SelfMutationProject.rolePolicy) = 3
  /\ SelfMutationProject.rolePolicy[3].actions = <<"s3:ListBucket">>

\* C4: every call of bind, onStateChange and actionProperties reaches the one
\* wrapped action with the arguments the configurator received and returns what
\* the wrapped action returned: the configurator's call history is the wrapped
\* action's call history.
C4_DelegationIdentity ==
  Constructed =>
    /\ action = 1
    /\ Len(actions) = 1
    /\ trace = actions[action].calls

C4_Witness ==
  /\ Constructed
  /\ Len(trace) = 3
  /\ trace[1].method = "bind"
  /\ trace[1].args = <<"pipeline", "UpdatePipeline", "options2">>
  /\ trace[2].method = "onStateChange"
  /\ trace[3].method = "actionProperties"
  /\ actions[action].calls = trace

\* C5: once constructed, the wrapped action exists, so no pass-through call ever
\* finds it missing, and actionProperties returns the wrapped action's
\* properties in every call order, bind called or not.
C5_PropertiesBeforeBind ==
  Constructed =>
    /\ action # undefined
    /\ action \in DOMAIN actions
    /\ \A i \in DOMAIN trace :
         /\ trace[i].ret.kind # "TypeError"
         /\ trace[i].method = "actionProperties" =>
              /\ trace[i].ret.kind = "ActionProperties"
              /\ trace[i].ret.actionName = "SelfMutate"
              /\ trace[i].ret.input = props.cloudAssemblyInput

C5_Witness ==
  /\ Constructed
  /\ Len(trace) = 2
  /\ trace[1].method = "actionProperties"
  /\ trace[1].ret.kind = "ActionProperties"
  /\ trace[2].method = "bind"

\* C6: no step taken after construction changes the configurator's state: the
\* projects with their build specifications and policy statements, the wrapped
\* action and what it wraps stay as construction left them.
C6_NoTransitionsAfterConstruction ==
  [][Constructed =>
       /\ pc' = pc
       /\ projects' = projects
       /\ action' = action
       /\ DOMAIN actions' = DOMAIN actions
       /\ \A i \in DOMAIN actions :
            /\ actions'[i].actionName = actions[i].actionName
            /\ actions'[i].input = actions[i].input
            /\ actions'[i].project = actions[i].project]_vars

C6_Witness ==
  /\ Constructed
  /\ CalledMethods = {"bind", "onStateChange", "actionProperties"}
  /\ Len(projects) = 1
  /\ Len(SelfMutationProject.rolePolicy) = 3
  /\ action = 1

\* C7: the constructor rejects no pipelineStackName: it never throws, it can
\* always complete, and the name reaches the deploy command unmodified.
C7_NoValidation ==
  /\ pc # "failed"
  /\ pc = "calling" => ENABLED Constructor
  /\ Constructed =>
       BuildCommands[1] =
         "cdk -a " \o scope.asmDir \o " deploy " \o props.pipelineStackName
           \o " --require-approval=never --verbose"

C7_Witness ==
  /\ Constructed
  /\ props.pipelineStackName = "bad name!"
  /\ scope.asmDir = "."
  /\ BuildCommands[1] = "cdk -a . deploy bad name! --require-approval=never --verbose"

\* C8: the build specification has version '0.2' and exactly the phases install
\* and build, each holding exactly one command, the build command naming the
\* assembly path and the stack.
C8_BuildSpecShape ==
  Constructed =>
    /\ EmittedBuildSpec.version = "0.2"
    /\ DOMAIN EmittedBuildSpec.phases = {"install", "build"}
    /\ Len(InstallCommands) = 1
    /\ Len(BuildCommands) = 1
    /\ BuildCommands[1] =
         "cdk -a " \o scope.asmDir \o " deploy " \o props.pipelineStackName
           \o " --require-approval=never --verbose"

C8_Witness ==
  /\ Constructed
  /\ scope.asmDir = "."
  /\ props.pipelineStackName = "Prod"
  /\ EmittedBuildSpec.version = "0.2"
  /\ EmittedBuildSpec.phases.install.commands.node = "scalar"
  /\ EmittedBuildSpec.phases.build.commands.node = "list"
  /\ BuildCommands[1] = "cdk -a . deploy Prod --require-approval=never --verbose"

\* C9: the wrapped action's input is the configured cloudAssemblyInput and its
\* project is the one project this construction created, which carries the build
\* specification, the three statements and the configured projectName (none when
\* absent).
C9_ActionWrapsInputAndProject ==
  Constructed =>
    /\ actions[action].actionName = "SelfMutate"
    /\ actions[action].input = props.cloudAssemblyInput
    /\ Len(projects) = 1
    /\ actions[action].project = 1
    /\ projects[1].id = "SelfMutation"
    /\ projects[1].projectName = props.projectName
    /\ projects[1].buildSpec.version = "0.2"
    /\ Len(projects[1].rolePolicy) = 3

C9_Witness ==
  /\ Constructed
  /\ props.pipelineStackName = "Prod"
  /\ props.cdkCliVersion = None
  /\ props.projectName = None
  /\ props.cloudAssemblyInput = "CloudAsm"
  /\ InstallCommands = <<"npm install -g aws-cdk">>
  /\ SelfMutationProject.projectName = None
  /\ actions[action].input = "CloudAsm"

\* C10: a cdkCliVersion that is present but empty gives the install command of an
\* absent one, 'npm install -g aws-cdk' with no trailing '@': the '@<version>'
\* suffix is there exactly when the version is a non-empty string.
C10_EmptyVersionIsAbsent ==
  Constructed =>
    /\ props.cdkCliVersion = Some("") =>
         InstallCommands = <<"npm install -g aws-cdk">>
    /\ InstallCommands # <<"npm install -g aws-cdk@">>
    /\ (InstallCommands[1] = "npm install -g aws-cdk@" \o props.cdkCliVersion.value)
         <=> (props.cdkCliVersion.present /\ props.cdkCliVersion.value # "")

C10_Witness ==
  /\ Constructed
  /\ props.cdkCliVersion = Some("")
  /\ InstallCommands = <<"npm install -g aws-cdk">>

====
